---- MODULE Spec2Model ----
(***************************************************************************)
(* Model of the purgatory of the compilation worker                        *)
(* (crates/worker/src/purgatory.rs): the lease schedule, the status map,   *)
(* add_record, the purge sweep and the daemon that drives it.              *)
(*                                                                         *)
(* A sweep holds the tokio Mutex over Inner from `lock().await` until the  *)
(* guard is dropped, and suspends at every store call.  It is modelled in  *)
(* steps: SweepStart (lock, read the clock), SweepStep (one iteration of   *)
(* the for loop, with the store calls it makes), SweepCompact (the break   *)
(* or the end of the loop, then retain), SweepReturn (the guard drops).    *)
(* A store call that fails is `.unwrap()`ed: the task running the sweep    *)
(* panics, SweepUnwind drops the guard while unwinding.                    *)
(*                                                                         *)
(* The second part models the record codec of crates/types/src/item.rs:    *)
(* Item -> AttributeMap and back, under its own specification SpecCodec.   *)
(***************************************************************************)
EXTENDS Integers, Sequences, FiniteSets, TLC

\* ---------------------------------------------------------------- bounds
MaxLen == 2          \* longest expiration_timestamps explored
MaxClock == 301      \* last clock reading explored

\* ------------------------------------------------------ program constants
DURATION_TO_PURGE == 300

Ids == {"J1", "J2"}

\* Clock readings explored: the seconds around a registration at 0 and
\* around the end of its lease; the seconds in between add nothing.
Instants == {t \in 0..MaxClock : t <= 1 \/ t >= DURATION_TO_PURGE - 1}

\* ------------------------------------------------------------ data types
TaskResult == {"Success", "Failure"}

Pending == [tag |-> "Pending"]
InProgress == [tag |-> "InProgress"]
Done(result) == [tag |-> "Done", result |-> result]

Status == {Pending, InProgress} \cup {Done(r) : r \in TaskResult}

s3_compilation_files_dir(id) == [dir |-> "compilation_files", id |-> id]
s3_artifacts_dir(id) == [dir |-> "artifacts", id |-> id]

delete_dir(dir) == [op |-> "delete_dir", arg |-> dir]
delete_item(id) == [op |-> "delete_item", arg |-> id]

VARIABLES
  expiration_timestamps,  \* State.expiration_timestamps: Vec<(Uuid, Timestamp)>
  task_status,            \* State.task_status: HashMap<Uuid, Status>
  clock,                  \* what timestamp() returns
  lock,                   \* holder of the Mutex<Inner>: "free", "daemon", "caller"
  daemon,                 \* the spawned daemon task: "running" or "panicked"
  phase,                  \* position of the sweep: "idle", "scan", "done", "panicked"
  now,                    \* purge's local `now`
  idx,                    \* position of purge's for loop in expiration_timestamps
  calls,                  \* store calls issued by the sweep so far, in order
  pre,                    \* State as the sweep found it
  prevFail,               \* position whose store call failed in the last sweep, if it panicked; else 0
  lastSweep,              \* time of the last sweep, if it completed and neither a record was added nor the clock moved since; else -1
  owner,                  \* the Purgatory handles outside the daemon: "held" or "dropped"
  inner,                  \* the Inner behind the Arc: "live", "dropped", "undefined"
  attrs,                  \* item.rs: the AttributeMap in hand
  encoded,                \* item.rs: <<item>> when attrs was made from item, else <<>>
  decoded                 \* item.rs: <<result>> of Item::try_from(attrs) once called, else <<>>

purgatoryVars == <<expiration_timestamps, task_status, clock, lock, daemon, phase,
                   now, idx, calls, pre, prevFail, lastSweep, owner, inner>>
codecVars == <<attrs, encoded, decoded>>

vars == <<expiration_timestamps, task_status, clock, lock, daemon, phase,
          now, idx, calls, pre, prevFail, lastSweep, owner, inner,
          attrs, encoded, decoded>>

NoSweep == -1

\* --------------------------------------------------------------- helpers
Insert(m, k, v) == [x \in (DOMAIN m) \cup {k} |-> IF x = k THEN v ELSE m[x]]
Remove(m, ks) == [x \in (DOMAIN m) \ ks |-> m[x]]
EmptyMap == [x \in {} |-> Pending]

Entry(id, ts) == [id |-> id, ts |-> ts]

\* State::load: nothing is loaded yet (TODO in the source)
load == [ts |-> <<>>, st |-> EmptyMap]

\* The State values handed to Purgatory::new that are explored: leases a
\* previous run recorded at instant 0, one per id, each id with a status.
IdSeqs ==
  {s \in UNION {[1..n -> Ids] : n \in 0..Cardinality(Ids)} :
     \A i, j \in DOMAIN s : s[i] = s[j] => i = j}
States ==
  UNION {{[ts |-> [i \in DOMAIN s |-> Entry(s[i], DURATION_TO_PURGE)], st |-> f] :
            f \in [{s[i] : i \in DOMAIN s} -> Status]} : s \in IdSeqs}

\* Mutation of CleanupCalls: an InProgress entry is cleaned up like a Done one.
CleanupCallsStuckPurged(id, status) ==
  CASE status.tag = "Pending" ->
         << delete_dir(s3_compilation_files_dir(id)),
            delete_dir(s3_compilation_files_dir(id)),
            delete_item(id) >>
    [] status.tag \in {"InProgress", "Done"} ->
         << delete_dir(s3_artifacts_dir(id)),
            delete_item(id) >>

\* Mutation of CleanupCalls: a Done entry's record is deleted before its
\* artifacts directory.
CleanupCallsRecordFirst(id, status) ==
  CASE status.tag = "InProgress" -> <<>>
    [] status.tag = "Pending" ->
         << delete_dir(s3_compilation_files_dir(id)),
            delete_dir(s3_compilation_files_dir(id)),
            delete_item(id) >>
    [] status.tag = "Done" ->
         << delete_item(id),
            delete_dir(s3_artifacts_dir(id)) >>

\* The store calls of one iteration of purge's loop for an entry whose id
\* has `status` in task_status, in the order the code issues them.
CleanupCalls(id, status) ==
  CASE status.tag = "InProgress" -> <<>>
    [] status.tag = "Pending" ->
         << delete_dir(s3_compilation_files_dir(id)),
            delete_dir(s3_compilation_files_dir(id)),
            delete_item(id) >>
    [] status.tag = "Done" ->
         << delete_dir(s3_artifacts_dir(id)),
            delete_item(id) >>

\* What one loop iteration asks of the stores for entry e.
Dispatch(e, statuses) ==
  IF e.id \in DOMAIN statuses
    THEN CleanupCalls(e.id, statuses[e.id])
    ELSE <<>>                       \* warn!("Inconsistency! ..."); continue

\* The first k required calls succeeded; if k < Len(required), call k+1 failed.
Issued(required, k, i) ==
  [j \in 1..(IF k < Len(required) THEN k + 1 ELSE k) |->
     [op |-> required[j].op, arg |-> required[j].arg, ok |-> (j <= k), idx |-> i]]

Expired(e, t) == ~(e.ts > t)

\* retain: keeps the entries with timestamp > now, in order
Retained(ts, t) == SelectSeq(ts, LAMBDA e : ~Expired(e, t))
\* ids whose status retain's closure removes
RemovedIds(ts, t) == {ts[i].id : i \in {j \in 1..Len(ts) : Expired(ts[j], t)}}

\* ------------------------------------------------------------------ Init
InitWith(state) ==
  /\ expiration_timestamps = state.ts
  /\ task_status = state.st
  /\ clock = 0
  /\ lock = "free"
  /\ daemon = "running"
  /\ phase = "idle"
  /\ now = 0
  /\ idx = 0
  /\ calls = <<>>
  /\ pre = load
  /\ prevFail = 0
  /\ lastSweep = NoSweep
  /\ owner = "held"
  /\ inner = "live"
  /\ attrs = <<>>
  /\ encoded = <<>>
  /\ decoded = <<>>

Init == InitWith(load)

\* --------------------------------------------------------------- actions
\* A sweep reads the clock once, in SweepStart, and add_record reads it
\* under the lock: a clock move while the lock is held is seen by nobody
\* before the lock is released, so the clock moves between operations.
ClockAdvance ==
  /\ phase = "idle"
  /\ \E t \in Instants : t > clock /\ clock' = t
  /\ UNCHANGED <<expiration_timestamps, task_status, lock, daemon, phase,
                 now, idx, calls, pre, prevFail, owner, inner>>
  /\ lastSweep' = NoSweep
  /\ UNCHANGED codecVars

\* the wall clock is set back
ClockStepBack ==
  /\ phase = "idle"
  /\ \E t \in Instants : t < clock /\ clock' = t
  /\ UNCHANGED <<expiration_timestamps, task_status, lock, daemon, phase,
                 now, idx, calls, pre, prevFail, owner, inner>>
  /\ lastSweep' = NoSweep
  /\ UNCHANGED codecVars

\* Mutation of add_record: the lease duration is not added to the timestamp.
add_recordNoLease(id, result) ==
  /\ owner = "held"
  /\ lock = "free"
  /\ Len(expiration_timestamps) < MaxLen
  /\ LET to_purge_timestampe == clock IN
       /\ task_status' = Insert(task_status, id, Done(result))
       /\ expiration_timestamps' =
            Append(expiration_timestamps, Entry(id, to_purge_timestampe))
  /\ lastSweep' = NoSweep
  /\ UNCHANGED <<clock, lock, daemon, phase, now, idx, calls, pre, prevFail,
                 owner, inner>>
  /\ UNCHANGED codecVars

\* Mutation of add_record: the record is added without waiting for the lock.
add_recordUnlocked(id, result) ==
  /\ owner = "held"
  /\ Len(expiration_timestamps) < MaxLen
  /\ LET to_purge_timestampe == clock + DURATION_TO_PURGE IN
       /\ task_status' = Insert(task_status, id, Done(result))
       /\ expiration_timestamps' =
            Append(expiration_timestamps, Entry(id, to_purge_timestampe))
  /\ lastSweep' = NoSweep
  /\ UNCHANGED <<clock, lock, daemon, phase, now, idx, calls, pre, prevFail,
                 owner, inner>>
  /\ UNCHANGED codecVars

add_record(id, result) ==
  /\ owner = "held"
  /\ lock = "free"
  /\ Len(expiration_timestamps) < MaxLen
  /\ LET to_purge_timestampe == clock + DURATION_TO_PURGE IN
       /\ task_status' = Insert(task_status, id, Done(result))
       /\ expiration_timestamps' =
            Append(expiration_timestamps, Entry(id, to_purge_timestampe))
  /\ lastSweep' = NoSweep
  /\ UNCHANGED <<clock, lock, daemon, phase, now, idx, calls, pre, prevFail,
                 owner, inner>>
  /\ UNCHANGED codecVars

AddRecord == \E id \in Ids, result \in TaskResult : add_record(id, result)

\* Inner::purge up to its loop, entered by `by` with the lock taken
SweepStart(by) ==
  /\ lock' = by
  /\ phase' = "scan"
  /\ now' = clock
  /\ idx' = 1
  /\ calls' = <<>>
  /\ pre' = [ts |-> expiration_timestamps, st |-> task_status]
  /\ UNCHANGED <<expiration_timestamps, task_status, clock, daemon, prevFail,
                 lastSweep, owner, inner>>
  /\ UNCHANGED codecVars

\* the daemon's loop: interval.tick().await; self.purge().await
DaemonTick ==
  /\ daemon = "running"
  /\ lock = "free"
  /\ SweepStart("daemon")

\* Purgatory::purge called on a handle held by the owner
CallerPurge ==
  /\ owner = "held"
  /\ lock = "free"
  /\ SweepStart("caller")

SweepStep ==
  /\ phase = "scan"
  /\ idx <= Len(expiration_timestamps)
  /\ Expired(expiration_timestamps[idx], now)
  /\ LET required == Dispatch(expiration_timestamps[idx], task_status) IN
       \E k \in 0..Len(required) :
          /\ calls' = calls \o Issued(required, k, idx)
          /\ IF k = Len(required)
               THEN idx' = idx + 1 /\ phase' = "scan"
               ELSE idx' = idx /\ phase' = "panicked"
  /\ UNCHANGED <<expiration_timestamps, task_status, clock, lock, daemon,
                 now, pre, prevFail, lastSweep, owner, inner>>
  /\ UNCHANGED codecVars

\* Mutation of SweepCompact: the retain after the loop is left out.
SweepCompactNoRetain ==
  /\ phase = "scan"
  /\ IF idx <= Len(expiration_timestamps)
       THEN ~Expired(expiration_timestamps[idx], now)
       ELSE TRUE
  /\ phase' = "done"
  /\ UNCHANGED <<expiration_timestamps, task_status, clock, lock, daemon, now,
                 idx, calls, pre, prevFail, lastSweep, owner, inner>>
  /\ UNCHANGED codecVars

SweepCompact ==
  /\ phase = "scan"
  /\ IF idx <= Len(expiration_timestamps)
       THEN ~Expired(expiration_timestamps[idx], now)      \* break
       ELSE TRUE                                           \* end of the Vec
  /\ expiration_timestamps' = Retained(expiration_timestamps, now)
  /\ task_status' = Remove(task_status, RemovedIds(expiration_timestamps, now))
  /\ phase' = "done"
  /\ UNCHANGED <<clock, lock, daemon, now, idx, calls, pre, prevFail,
                 lastSweep, owner, inner>>
  /\ UNCHANGED codecVars

SweepReturn ==
  /\ phase = "done"
  /\ lock' = "free"
  /\ phase' = "idle"
  /\ now' = 0 /\ idx' = 0 /\ calls' = <<>> /\ pre' = load
  /\ prevFail' = 0
  /\ lastSweep' = IF clock = now THEN now ELSE NoSweep
  /\ UNCHANGED <<expiration_timestamps, task_status, clock, daemon, owner, inner>>
  /\ UNCHANGED codecVars

SweepUnwind ==
  /\ phase = "panicked"
  /\ daemon' = IF lock = "daemon" THEN "panicked" ELSE daemon
  /\ lock' = "free"
  /\ phase' = "idle"
  /\ prevFail' = idx
  /\ lastSweep' = NoSweep
  /\ now' = 0 /\ idx' = 0 /\ calls' = <<>> /\ pre' = load
  /\ UNCHANGED <<expiration_timestamps, task_status, clock, owner, inner>>
  /\ UNCHANGED codecVars

\* The owner drops every Purgatory it holds.  purge and add_record borrow the
\* handle mutably, so no call of the owner is in flight then.
OwnerDrop ==
  /\ owner = "held"
  /\ lock # "caller"
  /\ owner' = "dropped"
  /\ UNCHANGED <<expiration_timestamps, task_status, clock, lock, daemon, phase,
                 now, idx, calls, pre, prevFail, lastSweep, inner>>
  /\ UNCHANGED codecVars

\* Drop for Inner.  The daemon task owns a clone of the Arc, so the last
\* reference goes only when the owner's handles are dropped and the daemon
\* task has ended.  `handle` still points at the local `initialized_handle`
\* of Purgatory::new, which is gone: `self.handle.as_ref().abort()` is
\* undefined behaviour, here either without visible effect or not.
InnerDrop ==
  /\ owner = "dropped"
  /\ daemon = "panicked"
  /\ phase = "idle"
  /\ inner = "live"
  /\ inner' \in {"dropped", "undefined"}
  /\ UNCHANGED <<expiration_timestamps, task_status, clock, lock, daemon, phase,
                 now, idx, calls, pre, prevFail, lastSweep, owner>>
  /\ UNCHANGED codecVars

Next ==
  \/ ClockAdvance
  \/ ClockStepBack
  \/ AddRecord
  \/ DaemonTick
  \/ CallerPurge
  \/ SweepStep
  \/ SweepCompact
  \/ SweepReturn
  \/ SweepUnwind
  \/ OwnerDrop
  \/ InnerDrop

Spec == Init /\ [][Next]_vars

\* The program under the scheduling it runs with: time goes forward, the
\* interval keeps ticking and the FIFO mutex lets the daemon in, a started
\* sweep runs on, and store calls succeed again and again.
NextForward ==
  \/ ClockAdvance
  \/ AddRecord
  \/ DaemonTick
  \/ CallerPurge
  \/ SweepStep
  \/ SweepCompact
  \/ SweepReturn
  \/ SweepUnwind
  \/ OwnerDrop
  \/ InnerDrop

SweepStepOk == SweepStep /\ phase' = "scan"

Fairness ==
  /\ WF_vars(ClockAdvance)
  /\ SF_vars(DaemonTick)
  /\ WF_vars(SweepStep)
  /\ SF_vars(SweepStepOk)
  /\ WF_vars(SweepCompact)
  /\ WF_vars(SweepReturn)
  /\ WF_vars(SweepUnwind)

SpecFair == Init /\ [][NextForward]_vars /\ Fairness

\* Purgatory::new(state, ..) with a State that holds records
InitLoaded == \E state \in States : InitWith(state)

SpecLoaded == InitLoaded /\ [][Next]_vars

\* ================================================================ item.rs
\* Strings are sequences of characters.  AttributeValue is a record with one
\* field named after its variant: [N |-> s], [S |-> s], [Ss |-> list],
\* [Bool |-> b].  An AttributeMap is a function from attribute names.

MaxDigits == 2       \* longest number string explored (one longer one is added)
MaxUrls == 2         \* longest presigned_urls list explored

\* u32::MAX = 4294967295, held as quotient and remainder by ten
U32MaxDiv10 == 429496729
U32MaxMod10 == 5

attribute_name == "Status"
data_attribute_name == "Data"
id_attribute_name == "ID"

StatusPending == [tag |-> "Pending"]
StatusCompiling == [tag |-> "Compiling"]
StatusReady(presigned_urls) == [tag |-> "Ready", presigned_urls |-> presigned_urls]
StatusFailed(msg) == [tag |-> "Failed", msg |-> msg]

\* From<&Status> for u32
u32From(value) ==
  CASE value.tag = "Pending" -> 0
    [] value.tag = "Compiling" -> 1
    [] value.tag = "Ready" -> 2
    [] value.tag = "Failed" -> 3

DigitChars == <<"0", "1", "2", "3", "4", "5", "6", "7", "8", "9">>
IsDigit(c) == \E d \in 1..10 : DigitChars[d] = c
DigitVal(c) == (CHOOSE d \in 1..10 : DigitChars[d] = c) - 1

\* u32::to_string
RECURSIVE to_string(_)
to_string(n) ==
  IF n < 10 THEN <<DigitChars[n + 1]>>
            ELSE to_string(n \div 10) \o <<DigitChars[(n % 10) + 1]>>

\* the digits of str::parse::<u32>, most significant first, onto acc
RECURSIVE ParseDigits(_, _)
ParseDigits(digits, acc) ==
  IF Len(digits) = 0 THEN [ok |-> TRUE, val |-> acc]
  ELSE IF ~IsDigit(Head(digits)) THEN [ok |-> FALSE, val |-> 0]   \* InvalidDigit
  ELSE IF \/ acc > U32MaxDiv10
          \/ acc = U32MaxDiv10 /\ DigitVal(Head(digits)) > U32MaxMod10
         THEN [ok |-> FALSE, val |-> 0]                           \* PosOverflow
  ELSE ParseDigits(Tail(digits), acc * 10 + DigitVal(Head(digits)))

\* str::parse::<u32>: an optional '+', then decimal digits; no '-' for an
\* unsigned type, no empty string, no value above u32::MAX
parse_u32(src) ==
  IF Len(src) = 0 THEN [ok |-> FALSE, val |-> 0]                  \* Empty
  ELSE IF Len(src) = 1 /\ Head(src) \in {"+", "-"}
         THEN [ok |-> FALSE, val |-> 0]                           \* InvalidDigit
  ELSE IF Head(src) = "+" THEN ParseDigits(Tail(src), 0)
  ELSE ParseDigits(src, 0)

MapOf(name, value) == [x \in {name} |-> value]
\* HashMap::extend: the entries of `more` replace those of `m`
Extend(m, more) ==
  [x \in (DOMAIN m) \cup (DOMAIN more) |-> IF x \in DOMAIN more THEN more[x] ELSE m[x]]

\* Mutation of StatusToMap: an empty presigned_urls list is not written.
StatusToMapSkipsEmpty(value) ==
  CASE value.tag \in {"Pending", "Compiling"} ->
         MapOf(attribute_name, [N |-> to_string(u32From(value))])
    [] value.tag = "Ready" ->
         IF value.presigned_urls = <<>>
           THEN MapOf(attribute_name, [N |-> to_string(u32From(value))])
           ELSE Extend(MapOf(attribute_name, [N |-> to_string(u32From(value))]),
                       MapOf(data_attribute_name, [Ss |-> value.presigned_urls]))
    [] value.tag = "Failed" ->
         Extend(MapOf(attribute_name, [N |-> to_string(u32From(value))]),
                MapOf(data_attribute_name, [S |-> value.msg]))

\* From<Status> for HashMap<String, AttributeValue>
StatusToMap(value) ==
  CASE value.tag \in {"Pending", "Compiling"} ->
         MapOf(attribute_name, [N |-> to_string(u32From(value))])
    [] value.tag = "Ready" ->
         Extend(MapOf(attribute_name, [N |-> to_string(u32From(value))]),
                MapOf(data_attribute_name, [Ss |-> value.presigned_urls]))
    [] value.tag = "Failed" ->
         Extend(MapOf(attribute_name, [N |-> to_string(u32From(value))]),
                MapOf(data_attribute_name, [S |-> value.msg]))

\* From<Item> for AttributeMap
ItemToMap(value) ==
  Extend(MapOf(id_attribute_name, [S |-> value.id]), StatusToMap(value.status))

FormatError == [ok |-> FALSE, err |-> "FormatError"]
ParseError == [ok |-> FALSE, err |-> "ParseError"]
Ok(v) == [ok |-> TRUE, value |-> v]

\* AttributeValue::as_n / as_s / as_ss succeed on their own variant only
IsN(a) == DOMAIN a = {"N"}
IsS(a) == DOMAIN a = {"S"}
IsSs(a) == DOMAIN a = {"Ss"}

\* the match on the parsed tag
StatusOfTag(status, value) ==
  CASE status = 0 -> Ok(StatusPending)
    [] status = 1 -> Ok(StatusCompiling)
    [] status = 2 ->
         IF data_attribute_name \notin DOMAIN value THEN FormatError
         ELSE IF ~IsSs(value[data_attribute_name]) THEN FormatError
         ELSE Ok(StatusReady(value[data_attribute_name].Ss))
    [] status = 3 ->
         IF data_attribute_name \notin DOMAIN value THEN FormatError
         ELSE IF ~IsS(value[data_attribute_name]) THEN FormatError
         ELSE Ok(StatusFailed(value[data_attribute_name].S))
    [] OTHER -> FormatError

\* Mutation of StatusTryFrom: an unknown tag is read as Pending.
StatusTryFromDefaultsTag(value) ==
  IF attribute_name \notin DOMAIN value THEN FormatError
  ELSE IF ~IsN(value[attribute_name]) THEN FormatError
  ELSE IF ~parse_u32(value[attribute_name].N).ok THEN ParseError
  ELSE IF parse_u32(value[attribute_name].N).val \notin 0..3 THEN Ok(StatusPending)
  ELSE StatusOfTag(parse_u32(value[attribute_name].N).val, value)

\* Mutation of StatusTryFrom: a payload that is absent or of the wrong shape
\* is read as an empty one.
StatusTryFromDefaultsData(value) ==
  IF attribute_name \notin DOMAIN value THEN FormatError
  ELSE IF ~IsN(value[attribute_name]) THEN FormatError
  ELSE IF ~parse_u32(value[attribute_name].N).ok THEN ParseError
  ELSE IF /\ parse_u32(value[attribute_name].N).val = 2
          /\ StatusOfTag(2, value) = FormatError THEN Ok(StatusReady(<<>>))
  ELSE IF /\ parse_u32(value[attribute_name].N).val = 3
          /\ StatusOfTag(3, value) = FormatError THEN Ok(StatusFailed(<<>>))
  ELSE StatusOfTag(parse_u32(value[attribute_name].N).val, value)

\* TryFrom<&AttributeMap> for Status
StatusTryFrom(value) ==
  IF attribute_name \notin DOMAIN value THEN FormatError
  ELSE IF ~IsN(value[attribute_name]) THEN FormatError
  ELSE IF ~parse_u32(value[attribute_name].N).ok THEN ParseError
  ELSE StatusOfTag(parse_u32(value[attribute_name].N).val, value)

\* TryFrom<AttributeMap> for Item
ItemTryFrom(value) ==
  IF id_attribute_name \notin DOMAIN value THEN FormatError
  ELSE IF ~IsS(value[id_attribute_name]) THEN FormatError
  ELSE IF ~StatusTryFrom(value).ok THEN StatusTryFrom(value)
  ELSE Ok([id |-> value[id_attribute_name].S, status |-> StatusTryFrom(value).value])

\* ------------------------------------------------ inputs of the codec
SeqsUpTo(S, n) == UNION {[1..k -> S] : k \in 0..n}

ItemIds == {<<>>, <<"a">>}
Urls == {<<>>, <<"u">>}
Reasons == {<<>>, <<"e">>}
Items ==
  {[id |-> id, status |-> st] :
     id \in ItemIds,
     st \in {StatusPending, StatusCompiling}
            \cup {StatusReady(l) : l \in SeqsUpTo(Urls, MaxUrls)}
            \cup {StatusFailed(m) : m \in Reasons}}

\* number strings a record read from the store may carry, well formed or not
NumberStrings ==
  SeqsUpTo({"0", "1", "2", "3", "4", "+", "-", "x"}, MaxDigits)
    \cup {<<"4", "2", "9", "4", "9", "6", "7", "2", "9", "6">>}     \* u32::MAX + 1

\* attribute maps a read from the store may return, each attribute absent,
\* of the expected variant, or of another variant
StoredIds == {[S |-> <<"a">>], [N |-> <<"0">>]}
StoredTags == {[N |-> n] : n \in NumberStrings} \cup {[S |-> <<"2">>], [Ss |-> <<>>]}
StoredData ==
  {[S |-> m] : m \in Reasons} \cup {[Ss |-> l] : l \in SeqsUpTo(Urls, MaxUrls)}
    \cup {[N |-> <<"2">>], [Bool |-> TRUE]}
StoredMaps ==
  {Extend(Extend(i, t), dt) :
     i \in {<<>>} \cup {MapOf(id_attribute_name, v) : v \in StoredIds},
     t \in {<<>>} \cup {MapOf(attribute_name, v) : v \in StoredTags},
     dt \in {<<>>} \cup {MapOf(data_attribute_name, v) : v \in StoredData}}

\* ------------------------------------------------ the codec at work
\* Either an Item to write, or an attribute map that came back from the
\* metadata store.
InitCodec ==
  /\ expiration_timestamps = load.ts /\ task_status = load.st
  /\ clock = 0 /\ lock = "free" /\ daemon = "running" /\ phase = "idle"
  /\ now = 0 /\ idx = 0 /\ calls = <<>> /\ pre = load /\ prevFail = 0
  /\ lastSweep = NoSweep /\ owner = "held" /\ inner = "live"
  /\ decoded = <<>>
  /\ \/ \E value \in Items : encoded = <<value>> /\ attrs = <<>>
     \/ \E value \in StoredMaps : encoded = <<>> /\ attrs = value

\* AttributeMap::from(item)
Encode ==
  /\ encoded # <<>>
  /\ attrs = <<>>
  /\ attrs' = ItemToMap(encoded[1])
  /\ UNCHANGED <<encoded, decoded>>
  /\ UNCHANGED purgatoryVars

\* Item::try_from(attrs)
Decode ==
  /\ decoded = <<>>
  /\ encoded = <<>> \/ attrs # <<>>
  /\ decoded' = <<ItemTryFrom(attrs)>>
  /\ UNCHANGED <<attrs, encoded>>
  /\ UNCHANGED purgatoryVars

NextCodec ==
  \/ Encode
  \/ Decode

SpecCodec == InitCodec /\ [][NextCodec]_vars

\* ------------------------------------------------- vocabulary of the claims
InSchedule(id) ==
  \E i \in 1..Len(expiration_timestamps) : expiration_timestamps[i].id = id

\* the entry is (still) in the schedule
Kept(e) ==
  \E i \in 1..Len(expiration_timestamps) : expiration_timestamps[i] = e

\* the sweep's loop ran its iteration for position i of the schedule
Scanned(i) == i < idx \/ (phase = "panicked" /\ i = idx)

CallsFor(i) == SelectSeq(calls, LAMBDA c : c.idx = i)
Requests(i) ==
  [k \in 1..Len(CallsFor(i)) |-> [op |-> CallsFor(i)[k].op, arg |-> CallsFor(i)[k].arg]]
JobOf(c) == IF c.op = "delete_item" THEN c.arg ELSE c.arg.id

IsPrefix(s, t) == Len(s) <= Len(t) /\ \A k \in 1..Len(s) : s[k] = t[k]

StatusIs(i, tag) ==
  pre.ts[i].id \in DOMAIN pre.st /\ pre.st[pre.ts[i].id].tag = tag

\* The calls issued for position i are `want`, in order, each one issued
\* only after the one before it succeeded, and all of them unless one failed.
CleanedAs(i, want) ==
  /\ IsPrefix(Requests(i), want)
  /\ \A k \in 1..(Len(CallsFor(i)) - 1) : CallsFor(i)[k].ok
  /\ Len(CallsFor(i)) > 0
  /\ i < idx => Len(CallsFor(i)) = Len(want) /\ CallsFor(i)[Len(want)].ok
  /\ ~(i < idx) => ~CallsFor(i)[Len(CallsFor(i))].ok

\* ------------------------------------------------------------------ claims

\* C1: whenever no operation is in progress, an id has an entry in
\* expiration_timestamps if and only if it has an entry in task_status,
\* also after the same id was registered more than once.
ScheduleMatchesStatusTable ==
  phase = "idle" =>
    \A id \in Ids : InSchedule(id) <=> id \in DOMAIN task_status

\* C2: an entry for which a store call failed is still in the schedule and
\* in the status table after that sweep; the next sweep, when the entry is
\* expired at its time, issues store calls for it again, and retires it
\* when that sweep's store calls succeed.
FailedEntryRetried ==
  /\ phase = "panicked" =>
       /\ Kept(pre.ts[idx])
       /\ pre.ts[idx].id \in DOMAIN task_status
  /\ (phase \in {"done", "panicked"} /\ prevFail > 0 /\ pre.ts[prevFail].ts <= now) =>
       Len(CallsFor(prevFail)) > 0
  /\ (phase = "done" /\ prevFail > 0 /\ pre.ts[prevFail].ts <= now) =>
       ~Kept(pre.ts[prevFail])

\* C3: after a sweep, an expired entry whose status was InProgress is still
\* in the schedule and its id still has a status.
ExpiredInProgressKept ==
  phase = "done" =>
    \A i \in 1..Len(pre.ts) :
      (pre.ts[i].ts <= now /\ StatusIs(i, "InProgress")) =>
        Kept(pre.ts[i]) /\ pre.ts[i].id \in DOMAIN task_status

\* C4: no store call of a sweep targets a job whose status is InProgress
\* when the sweep dispatches.
NoDeleteForInProgress ==
  \A k \in 1..Len(calls) :
    ~(JobOf(calls[k]) \in DOMAIN pre.st
        /\ pre.st[JobOf(calls[k])].tag = "InProgress")

\* C4 witness: a sweep has passed an expired InProgress entry and has
\* cleaned up another entry.
SweepPassedInProgress ==
  /\ phase = "done"
  /\ Len(calls) > 0
  /\ \E i \in 1..Len(pre.ts) : i < idx /\ StatusIs(i, "InProgress")

\* C5: an expired entry that the sweep meets and whose id has no status
\* gets no store call, does not stop the scan, and is still in the schedule
\* after the sweep.
MissingStatusEntryKept ==
  phase = "done" =>
    \A i \in 1..Len(pre.ts) :
      (pre.ts[i].ts <= now /\ Scanned(i) /\ pre.ts[i].id \notin DOMAIN pre.st) =>
        /\ Len(CallsFor(i)) = 0
        /\ i < idx
        /\ Kept(pre.ts[i])

\* C6: for an expired Pending entry the sweep deletes the compilation files
\* directory, then the artifacts directory, then the record, each call only
\* after the one before it succeeded.
PendingCleanup ==
  \A i \in 1..Len(pre.ts) :
    (Scanned(i) /\ StatusIs(i, "Pending")) =>
      CleanedAs(i, << delete_dir(s3_compilation_files_dir(pre.ts[i].id)),
                      delete_dir(s3_artifacts_dir(pre.ts[i].id)),
                      delete_item(pre.ts[i].id) >>)

\* C7: for an expired Done entry the sweep deletes the artifacts directory
\* and then the record, and never the compilation files directory.
DoneCleanup ==
  \A i \in 1..Len(pre.ts) :
    (Scanned(i) /\ StatusIs(i, "Done")) =>
      CleanedAs(i, << delete_dir(s3_artifacts_dir(pre.ts[i].id)),
                      delete_item(pre.ts[i].id) >>)

\* C7 witness: a sweep has cleaned up a Done entry with both calls.
DoneEntryCleaned ==
  /\ phase = "done"
  /\ \E i \in 1..Len(pre.ts) :
       i < idx /\ StatusIs(i, "Done") /\ Len(CallsFor(i)) = 2

\* C8: a sweep at time `now` issues no store call for an entry with
\* expiry > now, keeps these entries in the schedule in the same order, and
\* leaves the status of their ids as it was.
NonExpiredUntouched ==
  phase \in {"done", "panicked"} =>
    /\ SelectSeq(expiration_timestamps, LAMBDA e : e.ts > now)
         = SelectSeq(pre.ts, LAMBDA e : e.ts > now)
    /\ \A i \in 1..Len(pre.ts) :
         pre.ts[i].ts > now =>
           /\ Len(CallsFor(i)) = 0
           /\ pre.ts[i].id \in DOMAIN pre.st <=> pre.ts[i].id \in DOMAIN task_status
           /\ pre.ts[i].id \in DOMAIN pre.st =>
                task_status[pre.ts[i].id] = pre.st[pre.ts[i].id]

\* C9: a sweep in which no store call fails runs its dispatch for exactly
\* the positions of the schedule whose expiry is <= now, wherever they are.
DispatchesExactlyExpired ==
  phase = "done" =>
    {i \in 1..Len(pre.ts) : Scanned(i)} = {i \in 1..Len(pre.ts) : pre.ts[i].ts <= now}

\* C10: when a store call fails for one entry, every other expired entry of
\* the sweep is still dispatched, and those whose calls all succeeded are
\* retired by that sweep.
StoreFailureNotFatal ==
  phase = "panicked" =>
    \A i \in 1..Len(pre.ts) :
      (i # idx /\ pre.ts[i].ts <= now) =>
        /\ Scanned(i)
        /\ (\A k \in 1..Len(CallsFor(i)) : CallsFor(i)[k].ok) => ~Kept(pre.ts[i])

\* C11: a store error does not end the daemon: after a sweep that a store
\* failure cut short, the daemon task is still running and the lock is free
\* for add_record.
DaemonSurvivesStoreError ==
  (phase = "idle" /\ prevFail > 0) => (daemon = "running" /\ lock = "free")

\* C14: while a sweep holds the lock, from its start to the end of its
\* compaction and also while it waits for a store call, the schedule and
\* the status table change only by that sweep's own compaction.
SweepSerialized ==
  [][lock # "free" =>
       \/ /\ expiration_timestamps' = expiration_timestamps
          /\ task_status' = task_status
       \/ /\ phase = "scan" /\ phase' = "done"
          /\ expiration_timestamps' = Retained(pre.ts, now)
          /\ task_status' = Remove(pre.st, RemovedIds(pre.ts, now))]_vars

\* C14 witness: a sweep is between two store calls, holding the lock, while
\* the schedule has room for a record that add_record would append.
SweepSuspended ==
  /\ phase = "scan"
  /\ lock # "free"
  /\ Len(calls) > 0
  /\ owner = "held"
  /\ Len(expiration_timestamps) < MaxLen

\* C20: every entry that a sweep removes from the schedule was reached by
\* the dispatch scan of that sweep.
RemovedWereScanned ==
  phase = "done" =>
    \A i \in 1..Len(pre.ts) : ~Kept(pre.ts[i]) => Scanned(i)

\* C13 as stated: whenever add_record can be called, it can be called for
\* any id with any of the statuses Pending, InProgress and Done (Ready or
\* Failed), and then appends (id, clock + 300) and stores exactly that status.
AddRecordStoresAnyStatus ==
  (owner = "held" /\ lock = "free" /\ Len(expiration_timestamps) < MaxLen) =>
    \A id \in Ids, s \in Status :
      ENABLED (/\ AddRecord
               /\ expiration_timestamps' =
                    Append(expiration_timestamps, Entry(id, clock + DURATION_TO_PURGE))
               /\ task_status'[id] = s)

\* C13 amended: add_record(id, result) at time t appends (id, t + 300) to
\* the schedule and sets task_status[id] to Done(result); the entries before
\* it and the statuses of the other ids are unchanged.
AddRecordEffect ==
  [][\A id \in Ids, result \in TaskResult :
       add_record(id, result) =>
         /\ Len(expiration_timestamps') = Len(expiration_timestamps) + 1
         /\ expiration_timestamps'[Len(expiration_timestamps')] =
              [id |-> id, ts |-> clock + 300]
         /\ \A i \in 1..Len(expiration_timestamps) :
              expiration_timestamps'[i] = expiration_timestamps[i]
         /\ DOMAIN task_status' = DOMAIN task_status \cup {id}
         /\ task_status'[id] = [tag |-> "Done", result |-> result]
         /\ \A o \in DOMAIN task_status \ {id} : task_status'[o] = task_status[o]]_vars

\* C13 witness: a record with a Success result and one with a Failure
\* result were registered at the current time, after an earlier record.
BothResultsRegistered ==
  /\ Len(expiration_timestamps) = 2
  /\ \A i \in 1..2 : expiration_timestamps[i].ts = clock + DURATION_TO_PURGE
  /\ task_status = [id \in Ids |-> IF id = "J1" THEN Done("Success") ELSE Done("Failure")]

\* C15: once the owner has dropped every Purgatory it holds, no sweep starts.
NoSweepAfterDiscard ==
  [][owner = "dropped" => ~(phase = "idle" /\ phase' = "scan")]_vars

\* C16: a sweep that follows a completed sweep at the same time, with no
\* add_record in between, issues no store call and leaves the schedule and
\* the status table as they were.
SecondSweepNoOp ==
  (phase \in {"scan", "done", "panicked"} /\ lastSweep = now) =>
    /\ calls = <<>>
    /\ phase # "panicked"
    /\ expiration_timestamps = pre.ts
    /\ task_status = pre.st

\* C16 witness: the second sweep has completed on a schedule and a status
\* table that are not empty.
SecondSweepDone ==
  /\ phase = "done"
  /\ lastSweep = now
  /\ Len(expiration_timestamps) > 0
  /\ DOMAIN task_status # {}

\* C12: while the owner keeps its handle, an entry that has expired and
\* whose job has a Pending or Done status is eventually retired from the
\* schedule.
EventuallyCleaned ==
  \A id \in Ids, t \in {x \in Instants : x >= DURATION_TO_PURGE} :
    (/\ Kept([id |-> id, ts |-> t])
     /\ t <= clock
     /\ id \in DOMAIN task_status
     /\ task_status[id].tag \in {"Pending", "Done"})
      ~> (~Kept([id |-> id, ts |-> t]) \/ owner = "dropped")

\* ----------------------------------------------------- claims on item.rs
IdOk(m) == id_attribute_name \in DOMAIN m /\ IsS(m[id_attribute_name])
TagIs(m, digits) ==
  /\ attribute_name \in DOMAIN m
  /\ IsN(m[attribute_name])
  /\ m[attribute_name].N = digits
\* the tag attribute is absent, is not a number attribute, does not parse,
\* or parses to a number outside 0..3
BadTag(m) ==
  \/ attribute_name \notin DOMAIN m
  \/ ~IsN(m[attribute_name])
  \/ ~parse_u32(m[attribute_name].N).ok
  \/ parse_u32(m[attribute_name].N).val \notin 0..3
Unparsable(m) ==
  /\ attribute_name \in DOMAIN m
  /\ IsN(m[attribute_name])
  /\ ~parse_u32(m[attribute_name].N).ok

\* C17: decoding the attribute map made from an Item succeeds and gives the
\* same id and the same status with the same payload.
RoundTrip ==
  (encoded # <<>> /\ decoded # <<>>) =>
    /\ decoded[1].ok
    /\ decoded[1].value.id = encoded[1].id
    /\ decoded[1].value.status = encoded[1].status

\* C17 witness: an Item that is Ready with an empty list of URLs has been
\* encoded and decoded.
RoundTripEmptyList ==
  /\ encoded # <<>>
  /\ decoded # <<>>
  /\ encoded[1].status.tag = "Ready"
  /\ encoded[1].status.presigned_urls = <<>>

\* C18 as stated: decoding a map whose tag is absent, not a number
\* attribute, unparsable or outside 0..3 fails with FormatError.
BadTagIsFormatError ==
  (decoded # <<>> /\ BadTag(attrs)) =>
    (~decoded[1].ok /\ decoded[1].err = "FormatError")

\* C18 amended: such a map never decodes; the error is ParseError when the
\* id is a string and the tag is a number attribute whose string does not
\* parse as a u32, and FormatError in the other cases.
BadTagIsError ==
  (decoded # <<>> /\ BadTag(attrs)) =>
    /\ ~decoded[1].ok
    /\ decoded[1].err =
         IF IdOk(attrs) /\ Unparsable(attrs) THEN "ParseError" ELSE "FormatError"

\* C18 witness: a map with a string id and tag 4 has been decoded.
UnknownTagDecoded ==
  /\ decoded # <<>>
  /\ IdOk(attrs)
  /\ TagIs(attrs, <<"4">>)

\* C19: decoding a map with tag 2 whose Data is absent or not a string
\* list, or with tag 3 whose Data is absent or not a string, fails with
\* FormatError.
BadPayloadIsFormatError ==
  (/\ decoded # <<>>
   /\ \/ /\ TagIs(attrs, <<"2">>)
         /\ data_attribute_name \in DOMAIN attrs => ~IsSs(attrs[data_attribute_name])
      \/ /\ TagIs(attrs, <<"3">>)
         /\ data_attribute_name \in DOMAIN attrs => ~IsS(attrs[data_attribute_name]))
    => (~decoded[1].ok /\ decoded[1].err = "FormatError")

\* C19 witness: a map with a string id, tag 2 and a single string as Data
\* has been decoded.
WrongShapeDecoded ==
  /\ decoded # <<>>
  /\ IdOk(attrs)
  /\ TagIs(attrs, <<"2">>)
  /\ data_attribute_name \in DOMAIN attrs
  /\ IsS(attrs[data_attribute_name])

TypeOK ==
  /\ clock \in Instants
  /\ lock \in {"free", "daemon", "caller"}
  /\ daemon \in {"running", "panicked"}
  /\ phase \in {"idle", "scan", "done", "panicked"}
  /\ Len(expiration_timestamps) <= MaxLen
  /\ DOMAIN task_status \subseteq Ids
  /\ owner \in {"held", "dropped"}
  /\ inner \in {"live", "dropped", "undefined"}
  /\ lastSweep \in {NoSweep, clock}
  /\ \A id \in DOMAIN task_status : task_status[id] \in Status
====
